---- MODULE Spec2Model ----
(***************************************************************************)
(* Model of discord_components/button.py: the Button component, its        *)
(* validating constructor, its property setters and its conversion to and  *)
(* from the wire map (to_dict / from_json).                                *)
(*                                                                         *)
(* Python values are tagged records, so that isinstance tests, truthiness  *)
(* ("not url", "id or ...") and equality behave as they do in the source:  *)
(* None, "" and a missing dict key are three different things.             *)
(***************************************************************************)
EXTENDS Integers, Sequences, FiniteSets, TLC

VARIABLES button, uuidCount, op, arg, raised, pre, ret

vars == <<button, uuidCount, op, arg, raised, pre, ret>>

(***************************************************************************)
(* Bounds of the model.                                                    *)
(***************************************************************************)
\* style values offered to the constructor, the setter and the wire: 0..MaxStyle
MaxStyle == 6
\* how many identifiers uuid1() hands out in one behaviour
MaxUuid == 2

(***************************************************************************)
(* Python values.                                                          *)
(***************************************************************************)
PyNone == [t |-> "None"]
PyStr(s) == [t |-> "str", v |-> s]
PyInt(i) == [t |-> "int", v |-> i]
PyBool(b) == [t |-> "bool", v |-> b]
PyDict(f) == [t |-> "dict", d |-> f]

\* discord.PartialEmoji(name=..., animated=False, id=None)
PartialEmoji(name, animated, id) ==
    [t |-> "PartialEmoji", name |-> name, animated |-> animated, id |-> id]

\* a discord.Emoji (a custom guild emoji) carrying name, animated and id
Emoji(name, animated, id) ==
    [t |-> "Emoji", name |-> name, animated |-> animated, id |-> id]

isinstance(x, cls) == x.t = cls

\* Python truth value: None, "", 0, False and {} are false; an Emoji or a
\* PartialEmoji object defines neither __bool__ nor __len__ and is always true.
Truthy(x) ==
    CASE x.t = "None" -> FALSE
      [] x.t = "str" -> x.v # ""
      [] x.t = "int" -> x.v # 0
      [] x.t = "bool" -> x.v
      [] x.t = "dict" -> DOMAIN x.d # {}
      [] OTHER -> TRUE

\* dict.get(key, default)
Get(data, key, default) == IF key \in DOMAIN data.d THEN data.d[key] ELSE default

\* the dict with the entries of r whose value is not Absent
Absent == [t |-> "absent"]
DictOf(r) == PyDict([k \in {x \in DOMAIN r : r[x] # Absent} |-> r[k]])

(***************************************************************************)
(* class ButtonStyle                                                       *)
(***************************************************************************)
blue == 1
gray == 2
green == 3
red == 4
URL == 5

\* str(uuid1()): the n-th identifier generated in this behaviour
Uuid(n) == PyStr("uuid-" \o ToString(n))

\* no Button object exists (before construction, or construction raised)
NoButton == [t |-> "NoButton"]

(***************************************************************************)
(* class Button                                                            *)
(***************************************************************************)
InvalidArgument == "InvalidArgument"
KeyError == "KeyError"
NoError == "none"

\* __init__, lines 96-103: the emoji argument normalised to a PartialEmoji
init_emoji(emoji) ==
    IF isinstance(emoji, "Emoji")
    THEN PartialEmoji(emoji.name, emoji.animated, emoji.id)
    ELSE IF isinstance(emoji, "PartialEmoji")
    THEN emoji
    ELSE IF isinstance(emoji, "str")
    THEN PartialEmoji(emoji, PyBool(FALSE), PyNone)
    ELSE PyNone

\* init_id with the generation forgotten: the id argument is stored as given
init_id_as_given(style, id, fresh) ==
    IF ~(style = PyInt(URL))
    THEN id
    ELSE PyNone

\* __init__, lines 105-108: `id or str(uuid1())`, None on a URL button
init_id(style, id, fresh) ==
    IF ~(style = PyInt(URL))
    THEN (IF Truthy(id) THEN id ELSE fresh)
    ELSE PyNone

\* Button_init with the "Both ID and URL are set" guard left out
Button_init_without_both_set(a, fresh) ==
    IF a.style = PyInt(URL) /\ ~Truthy(a.url)
    THEN [raised |-> InvalidArgument, self |-> NoButton]
    ELSE IF ~(1 <= a.style.v /\ a.style.v <= URL)
    THEN [raised |-> InvalidArgument, self |-> NoButton]
    ELSE IF ~Truthy(a.label) /\ ~Truthy(a.emoji)
    THEN [raised |-> InvalidArgument, self |-> NoButton]
    ELSE [raised |-> NoError,
          self |-> [style |-> a.style,
                    label |-> a.label,
                    url |-> a.url,
                    disabled |-> a.disabled,
                    emoji |-> init_emoji(a.emoji),
                    id |-> init_id(a.style, a.id, fresh)]]

\* Button(label=, style=, id=, url=, disabled=, emoji=): a is the record of the
\* keyword arguments, fresh is what str(uuid1()) returns if it is called.
\* The result is the exception raised (or none) and the object built.
Button_init(a, fresh) ==
    IF a.style = PyInt(URL) /\ ~Truthy(a.url)
    THEN [raised |-> InvalidArgument, self |-> NoButton]
    ELSE IF a.style = PyInt(URL) /\ Truthy(a.id)
    THEN [raised |-> InvalidArgument, self |-> NoButton]
    ELSE IF ~(1 <= a.style.v /\ a.style.v <= URL)
    THEN [raised |-> InvalidArgument, self |-> NoButton]
    ELSE IF ~Truthy(a.label) /\ ~Truthy(a.emoji)
    THEN [raised |-> InvalidArgument, self |-> NoButton]
    ELSE [raised |-> NoError,
          self |-> [style |-> a.style,
                    label |-> a.label,
                    url |-> a.url,
                    disabled |-> a.disabled,
                    emoji |-> init_emoji(a.emoji),
                    id |-> init_id(a.style, a.id, fresh)]]

\* PartialEmoji.to_dict() as called at line 126: name always, id and animated
\* only when they are true
emoji_to_dict(e) ==
    DictOf([name |-> e.name,
            id |-> IF Truthy(e.id) THEN e.id ELSE Absent,
            animated |-> IF Truthy(e.animated) THEN e.animated ELSE Absent])

\* to_dict that emits the stored url whatever the style
to_dict_url_always(self) ==
    DictOf([type |-> PyInt(2),
            style |-> self.style,
            label |-> self.label,
            custom_id |-> self.id,
            url |-> self.url,
            disabled |-> self.disabled,
            emoji |-> IF Truthy(self.emoji) THEN emoji_to_dict(self.emoji) ELSE Absent])

\* to_dict with the disabled entry forgotten
to_dict_without_disabled(self) ==
    DictOf([type |-> PyInt(2),
            style |-> self.style,
            label |-> self.label,
            custom_id |-> self.id,
            url |-> IF self.style = PyInt(URL) THEN self.url ELSE PyNone,
            disabled |-> Absent,
            emoji |-> IF Truthy(self.emoji) THEN emoji_to_dict(self.emoji) ELSE Absent])

\* Button.to_dict
to_dict(self) ==
    DictOf([type |-> PyInt(2),
            style |-> self.style,
            label |-> self.label,
            custom_id |-> self.id,
            url |-> IF self.style = PyInt(URL) THEN self.url ELSE PyNone,
            disabled |-> self.disabled,
            emoji |-> IF Truthy(self.emoji) THEN emoji_to_dict(self.emoji) ELSE Absent])

\* style.setter with the "Both ID and URL are set" guard left out
set_style_without_id_check(self, value) ==
    IF ~(1 <= value.v /\ value.v <= URL)
    THEN [raised |-> InvalidArgument, self |-> self]
    ELSE [raised |-> NoError, self |-> [self EXCEPT !.style = value]]

\* style.setter with the range guard left out
set_style_without_range_check(self, value) ==
    IF value = PyInt(URL) /\ Truthy(self.id)
    THEN [raised |-> InvalidArgument, self |-> self]
    ELSE [raised |-> NoError, self |-> [self EXCEPT !.style = value]]

\* style.setter that clears the url when the style moves away from URL
set_style_clearing_url(self, value) ==
    IF value = PyInt(URL) /\ Truthy(self.id)
    THEN [raised |-> InvalidArgument, self |-> self]
    ELSE IF ~(1 <= value.v /\ value.v <= URL)
    THEN [raised |-> InvalidArgument, self |-> self]
    ELSE IF value # PyInt(URL)
    THEN [raised |-> NoError, self |-> [self EXCEPT !.style = value, !.url = PyNone]]
    ELSE [raised |-> NoError, self |-> [self EXCEPT !.style = value]]

\* style.setter
set_style(self, value) ==
    IF value = PyInt(URL) /\ Truthy(self.id)
    THEN [raised |-> InvalidArgument, self |-> self]
    ELSE IF ~(1 <= value.v /\ value.v <= URL)
    THEN [raised |-> InvalidArgument, self |-> self]
    ELSE [raised |-> NoError, self |-> [self EXCEPT !.style = value]]

\* label.setter that refuses every empty label, whatever the emoji
set_label_refusing_empty(self, value) ==
    IF ~Truthy(value)
    THEN [raised |-> InvalidArgument, self |-> self]
    ELSE [raised |-> NoError, self |-> [self EXCEPT !.label = value]]

\* label.setter
set_label(self, value) ==
    IF ~Truthy(value) /\ ~Truthy(self.emoji)
    THEN [raised |-> InvalidArgument, self |-> self]
    ELSE [raised |-> NoError, self |-> [self EXCEPT !.label = value]]

\* url.setter that assigns before it validates
set_url_assigning_first(self, value) ==
    IF Truthy(value) /\ self.style # PyInt(URL)
    THEN [raised |-> InvalidArgument, self |-> [self EXCEPT !.url = value]]
    ELSE [raised |-> NoError, self |-> [self EXCEPT !.url = value]]

\* url.setter that also refuses an empty url on a URL button
set_url_refusing_empty(self, value) ==
    IF Truthy(value) /\ self.style # PyInt(URL)
    THEN [raised |-> InvalidArgument, self |-> self]
    ELSE IF ~Truthy(value) /\ self.style = PyInt(URL)
    THEN [raised |-> InvalidArgument, self |-> self]
    ELSE [raised |-> NoError, self |-> [self EXCEPT !.url = value]]

\* url.setter
set_url(self, value) ==
    IF Truthy(value) /\ self.style # PyInt(URL)
    THEN [raised |-> InvalidArgument, self |-> self]
    ELSE [raised |-> NoError, self |-> [self EXCEPT !.url = value]]

\* id.setter with the URL-style guard left out
set_id_without_style_guard(self, value) ==
    [raised |-> NoError, self |-> [self EXCEPT !.id = value]]

\* id.setter that also refuses an empty identifier
set_id_refusing_empty(self, value) ==
    IF self.style = PyInt(URL)
    THEN [raised |-> InvalidArgument, self |-> self]
    ELSE IF ~Truthy(value)
    THEN [raised |-> InvalidArgument, self |-> self]
    ELSE [raised |-> NoError, self |-> [self EXCEPT !.id = value]]

\* id.setter
set_id(self, value) ==
    IF self.style = PyInt(URL)
    THEN [raised |-> InvalidArgument, self |-> self]
    ELSE [raised |-> NoError, self |-> [self EXCEPT !.id = value]]

\* disabled.setter that re-validates the url of a URL button
set_disabled_validating(self, value) ==
    IF self.style = PyInt(URL) /\ ~Truthy(self.url)
    THEN [raised |-> InvalidArgument, self |-> self]
    ELSE [raised |-> NoError, self |-> [self EXCEPT !.disabled = value]]

\* disabled.setter
set_disabled(self, value) ==
    [raised |-> NoError, self |-> [self EXCEPT !.disabled = value]]

\* emoji.setter that stores None for a value of an unsupported type, as
\* __init__ does
set_emoji_clearing(self, emoji) ==
    IF isinstance(emoji, "PartialEmoji")
    THEN [raised |-> NoError, self |-> [self EXCEPT !.emoji = emoji]]
    ELSE IF isinstance(emoji, "str")
    THEN [raised |-> NoError,
          self |-> [self EXCEPT !.emoji = PartialEmoji(emoji, PyBool(FALSE), PyNone)]]
    ELSE [raised |-> NoError, self |-> [self EXCEPT !.emoji = PyNone]]

\* emoji.setter that raises on a value of an unsupported type
set_emoji_raising(self, emoji) ==
    IF isinstance(emoji, "PartialEmoji")
    THEN [raised |-> NoError, self |-> [self EXCEPT !.emoji = emoji]]
    ELSE IF isinstance(emoji, "str")
    THEN [raised |-> NoError,
          self |-> [self EXCEPT !.emoji = PartialEmoji(emoji, PyBool(FALSE), PyNone)]]
    ELSE [raised |-> InvalidArgument, self |-> self]

\* emoji.setter
set_emoji(self, emoji) ==
    IF isinstance(emoji, "PartialEmoji")
    THEN [raised |-> NoError, self |-> [self EXCEPT !.emoji = emoji]]
    ELSE IF isinstance(emoji, "str")
    THEN [raised |-> NoError,
          self |-> [self EXCEPT !.emoji = PartialEmoji(emoji, PyBool(FALSE), PyNone)]]
    ELSE [raised |-> NoError, self |-> self]

\* from_json, lines 223-227: the emoji argument built from data.get("emoji");
\* emoji["name"] raises KeyError when the name is missing
json_emoji(emoji) ==
    IF Truthy(emoji)
    THEN (IF "name" \in DOMAIN emoji.d
          THEN [raised |-> NoError,
                value |-> PartialEmoji(emoji.d["name"],
                                       Get(emoji, "animated", PyBool(FALSE)),
                                       Get(emoji, "id", PyNone))]
          ELSE [raised |-> KeyError, value |-> PyNone])
    ELSE [raised |-> NoError, value |-> PyNone]

\* Button.from_json(data): data["style"] raises KeyError when style is missing
from_json(data, fresh) ==
    IF "style" \notin DOMAIN data.d
    THEN [raised |-> KeyError, self |-> NoButton]
    ELSE IF json_emoji(Get(data, "emoji", PyNone)).raised # NoError
    THEN [raised |-> json_emoji(Get(data, "emoji", PyNone)).raised, self |-> NoButton]
    ELSE Button_init([style |-> data.d["style"],
                      label |-> Get(data, "label", PyNone),
                      id |-> Get(data, "custom_id", PyNone),
                      url |-> Get(data, "url", PyNone),
                      disabled |-> Get(data, "disabled", PyBool(FALSE)),
                      emoji |-> json_emoji(Get(data, "emoji", PyNone)).value],
                     fresh)

(***************************************************************************)
(* The values callers pass.                                                *)
(***************************************************************************)
StyleValues == {PyInt(i) : i \in 0..MaxStyle}
LabelValues == {PyNone, PyStr(""), PyStr("Go")}
IdValues == {PyNone, PyStr(""), PyStr("abc")}
UrlValues == {PyNone, PyStr(""), PyStr("https://x")}
DisabledValues == {PyBool(FALSE), PyBool(TRUE)}
\* nothing, an empty and a non-empty string, a PartialEmoji, a custom Emoji,
\* and a value of an unsupported type
EmojiValues ==
    {PyNone, PyStr(""), PyStr("ok"),
     PartialEmoji(PyStr("ok"), PyBool(FALSE), PyNone),
     Emoji(PyStr("blob"), PyBool(TRUE), PyInt(7)),
     PyInt(42)}

\* keyword arguments of a constructor call
InitArgs ==
    [label : LabelValues, style : StyleValues, id : IdValues, url : UrlValues,
     disabled : DisabledValues, emoji : EmojiValues]

\* the emoji entry of a wire map: null, or a map that may lack any of its keys
WireEmojiValues ==
    {PyNone,
     DictOf([name |-> PyStr("ok"), animated |-> Absent, id |-> Absent]),
     DictOf([name |-> PyStr("blob"), animated |-> PyBool(TRUE), id |-> PyInt(7)]),
     DictOf([name |-> Absent, animated |-> Absent, id |-> PyInt(7)]),
     DictOf([name |-> Absent, animated |-> Absent, id |-> Absent])}

\* wire maps: every key may be missing
WireMaps ==
    {DictOf(r) : r \in
        [style : StyleValues \cup {Absent},
         label : LabelValues \cup {Absent},
         custom_id : IdValues \cup {Absent},
         url : UrlValues \cup {Absent},
         disabled : DisabledValues \cup {Absent},
         emoji : WireEmojiValues \cup {Absent}]}

(***************************************************************************)
(* The state machine: one Button and the last call made.                   *)
(*   button    the object, NoButton while none exists                      *)
(*   uuidCount how many identifiers uuid1() has generated                  *)
(*   op, arg   the last call and its argument                              *)
(*   raised    the exception it raised (NoError if none)                   *)
(*   pre       the object before the call                                  *)
(*   ret       what the call returned (to_dict: the map, from_json: the    *)
(*             Button), PyNone otherwise                                   *)
(***************************************************************************)
Init ==
    /\ button = NoButton
    /\ uuidCount = 0
    /\ op = "start"
    /\ arg = PyNone
    /\ raised = NoError
    /\ pre = NoButton
    /\ ret = PyNone

\* whether the constructor called uuid1(): the object carries the fresh value
UsedUuid(r, fresh) == r.raised = NoError /\ r.self.id = fresh

\* b = Button(**a)
Construct ==
    /\ op = "start"
    /\ \E a \in InitArgs :
        LET r == Button_init(a, Uuid(uuidCount + 1)) IN
        /\ UsedUuid(r, Uuid(uuidCount + 1)) => uuidCount < MaxUuid
        /\ button' = r.self
        /\ uuidCount' = IF UsedUuid(r, Uuid(uuidCount + 1)) THEN uuidCount + 1 ELSE uuidCount
        /\ op' = "init"
        /\ arg' = a
        /\ raised' = r.raised
        /\ pre' = NoButton
        /\ ret' = PyNone

\* a setter call b.<name> = value; a raising setter leaves the object alone
Setter(name, value, r) ==
    /\ button' = r.self
    /\ op' = name
    /\ arg' = value
    /\ raised' = r.raised
    /\ pre' = button
    /\ ret' = PyNone
    /\ UNCHANGED uuidCount

SetStyle ==
    /\ button # NoButton
    /\ \E value \in StyleValues : Setter("set_style", value, set_style(button, value))

SetLabel ==
    /\ button # NoButton
    /\ \E value \in LabelValues : Setter("set_label", value, set_label(button, value))

SetUrl ==
    /\ button # NoButton
    /\ \E value \in UrlValues : Setter("set_url", value, set_url(button, value))

SetId ==
    /\ button # NoButton
    /\ \E value \in IdValues : Setter("set_id", value, set_id(button, value))

SetDisabled ==
    /\ button # NoButton
    /\ \E value \in DisabledValues :
        Setter("set_disabled", value, set_disabled(button, value))

SetEmoji ==
    /\ button # NoButton
    /\ \E value \in EmojiValues : Setter("set_emoji", value, set_emoji(button, value))

\* data = b.to_dict()
ToDict ==
    /\ button # NoButton
    /\ op' = "to_dict"
    /\ arg' = PyNone
    /\ raised' = NoError
    /\ pre' = button
    /\ ret' = to_dict(button)
    /\ UNCHANGED <<button, uuidCount>>

\* Button.from_json(data): a static method, the object b is not involved
FromJson(data) ==
    LET r == from_json(data, Uuid(uuidCount + 1)) IN
    /\ UsedUuid(r, Uuid(uuidCount + 1)) => uuidCount < MaxUuid
    /\ uuidCount' = IF UsedUuid(r, Uuid(uuidCount + 1)) THEN uuidCount + 1 ELSE uuidCount
    /\ op' = "from_json"
    /\ arg' = data
    /\ raised' = r.raised
    /\ pre' = button
    /\ ret' = r.self
    /\ UNCHANGED button

\* from_json on a map received from the platform
FromJsonWire ==
    /\ op = "start"
    /\ \E data \in WireMaps : FromJson(data)

\* from_json on the map to_dict has just produced
FromJsonRoundTrip ==
    /\ op = "to_dict"
    /\ FromJson(ret)

Next ==
    \/ Construct
    \/ SetStyle
    \/ SetLabel
    \/ SetUrl
    \/ SetId
    \/ SetDisabled
    \/ SetEmoji
    \/ ToDict
    \/ FromJsonWire
    \/ FromJsonRoundTrip

Spec == Init /\ [][Next]_vars

(***************************************************************************)
(* Vocabulary of the properties.                                           *)
(***************************************************************************)
\* a field is absent when it is None or the empty string
IsEmpty(x) == x = PyNone \/ x = PyStr("")
Exists == button # NoButton
IsLink(b) == b.style = PyInt(URL)

\* the four invariants of the data model
LinkInvariant(b) == IsLink(b) => (~IsEmpty(b.url) /\ IsEmpty(b.id))
NonLinkInvariant(b) == ~IsLink(b) => (~IsEmpty(b.id) /\ IsEmpty(b.url))
LabelOrEmoji(b) == ~IsEmpty(b.label) \/ b.emoji # PyNone
StyleInRange(b) == b.style.t = "int" /\ b.style.v \in 1..5
Valid(b) == LinkInvariant(b) /\ NonLinkInvariant(b) /\ LabelOrEmoji(b) /\ StyleInRange(b)

(***************************************************************************)
(* C1: in every state reached by a successful construction and any setter  *)
(* calls, a Link button has a non-empty url.                               *)
(* Violated: b = Button(style=5, url="https://x", label="Go"); b.url = ""  *)
(***************************************************************************)
C1_LinkHasUrl == (Exists /\ IsLink(button)) => ~IsEmpty(button.url)

(***************************************************************************)
(* C2: in every state reached by a successful construction and any setter  *)
(* calls, a Link button has no identifier (None or empty).                 *)
(***************************************************************************)
C2_LinkHasNoId == (Exists /\ IsLink(button)) => IsEmpty(button.id)

\* the style setter has just turned a non-Link button into a Link button
C2_Witness ==
    /\ Exists
    /\ op = "set_style"
    /\ raised = NoError
    /\ ~IsLink(pre)
    /\ IsLink(button)

(***************************************************************************)
(* C3: in every state reached by a successful construction and any setter  *)
(* calls, a non-Link button has a non-empty identifier and no url.         *)
(* Violated: Button(label="Go", url="https://x") keeps the url.            *)
(***************************************************************************)
C3_NonLinkHasIdAndNoUrl ==
    (Exists /\ ~IsLink(button)) => (~IsEmpty(button.id) /\ IsEmpty(button.url))

(***************************************************************************)
(* C4: in every state reached by a successful construction (whatever the   *)
(* emoji argument) and any setter calls, the label is non-empty or the     *)
(* emoji is present.                                                       *)
(* Violated: Button(emoji=42) passes the label-or-emoji guard and stores no emoji.        *)
(***************************************************************************)
C4_LabelOrEmoji == Exists => LabelOrEmoji(button)

(***************************************************************************)
(* C5: in every state reached by a successful construction and any setter  *)
(* calls with integer styles, 1 <= style <= 5.                             *)
(***************************************************************************)
C5_StyleInRange == Exists => StyleInRange(button)

\* the style setter has just refused a style above 5 and the style has been
\* changed by an earlier call
C5_Witness ==
    /\ Exists
    /\ op = "set_style"
    /\ raised = InvalidArgument
    /\ arg.v > 5
    /\ button.style = PyInt(red)

(***************************************************************************)
(* C6: construction fails with InvalidArgument when style is Link and url  *)
(* is empty or absent, when style is Link and an identifier is supplied,   *)
(* when style is outside [1,5], when label and emoji are both empty or     *)
(* absent; it succeeds in every other case.                                *)
(***************************************************************************)
C6_MustFail(a) ==
    \/ a.style = PyInt(5) /\ IsEmpty(a.url)
    \/ a.style = PyInt(5) /\ ~IsEmpty(a.id)
    \/ a.style.v < 1
    \/ a.style.v > 5
    \/ IsEmpty(a.label) /\ IsEmpty(a.emoji)

C6_ConstructionFailsExactly ==
    op = "init" =>
        IF C6_MustFail(arg)
        THEN raised = InvalidArgument /\ button = NoButton
        ELSE raised = NoError /\ button # NoButton

\* Button(style=Link, url="https://x", id="abc", label="Go") was refused
C6_Witness ==
    /\ op = "init"
    /\ arg.style = PyInt(5)
    /\ arg.url = PyStr("https://x")
    /\ arg.id = PyStr("abc")
    /\ arg.label = PyStr("Go")
    /\ raised = InvalidArgument

(***************************************************************************)
(* C7: after a successful construction with a non-Link style the           *)
(* identifier is the supplied one, or a freshly generated non-empty string *)
(* when none is supplied; with style Link the identifier is absent.        *)
(***************************************************************************)
C7_IdentifierAssigned ==
    (op = "init" /\ raised = NoError) =>
        IF arg.style # PyInt(5)
        THEN IF ~IsEmpty(arg.id)
             THEN button.id = arg.id
             ELSE /\ button.id.t = "str"
                  /\ button.id.v # ""
                  /\ button.id \notin IdValues
                  /\ button.id = Uuid(uuidCount)
                  /\ uuidCount >= 1
        ELSE button.id = PyNone

\* Button(style=gray, label="Go") got a generated identifier and no url
C7_Witness ==
    /\ op = "init"
    /\ raised = NoError
    /\ arg.style = PyInt(gray)
    /\ arg.label = PyStr("Go")
    /\ arg.id = PyNone
    /\ arg.url = PyNone
    /\ button.id = Uuid(1)
    /\ button.url = PyNone

(***************************************************************************)
(* C8: for a valid Button b, from_json(to_dict(b)) succeeds and returns a  *)
(* Button with identical style, label, identifier, url, disabled, emoji.   *)
(* Violated: Button(label="Go", url="") is valid (its url is absent) and   *)
(* comes back with url None.                                               *)
(***************************************************************************)
C8_RoundTripOf(b) == op = "from_json" /\ b # NoButton /\ arg = to_dict(b) /\ Valid(b)

C8_RoundTripIdentical ==
    C8_RoundTripOf(button) => (raised = NoError /\ ret = button)

(***************************************************************************)
(* C8 as amended: for a valid Button b, from_json(to_dict(b)) succeeds and *)
(* returns a Button with identical style, label, disabled and emoji, and   *)
(* with the identifier and url of b, except that an empty-string           *)
(* identifier or url comes back as None.                                   *)
(***************************************************************************)
C8_NoneIfEmpty(x) == IF x = PyStr("") THEN PyNone ELSE x

C8_RoundTripUpToEmpty ==
    C8_RoundTripOf(button) =>
        /\ raised = NoError
        /\ ret # NoButton
        /\ ret.style = button.style
        /\ ret.label = button.label
        /\ ret.disabled = button.disabled
        /\ ret.emoji = button.emoji
        /\ ret.id = C8_NoneIfEmpty(button.id)
        /\ ret.url = C8_NoneIfEmpty(button.url)

\* a valid disabled button with a custom emoji and an empty url went through
\* to_dict and from_json
C8_Witness ==
    /\ C8_RoundTripOf(button)
    /\ button.disabled = PyBool(TRUE)
    /\ button.emoji = PartialEmoji(PyStr("blob"), PyBool(TRUE), PyInt(7))
    /\ button.url = PyStr("")
    /\ ret.url = PyNone
    /\ ret.id = button.id

(***************************************************************************)
(* C9: for every wire map that carries a style, from_json fails with       *)
(* InvalidArgument exactly when the constructor fails on the fields read   *)
(* from the map (style, label, custom_id as identifier, url, disabled      *)
(* defaulting to false, emoji built from name/animated/id when the emoji   *)
(* key is present), and otherwise returns the Button the constructor       *)
(* returns: so it either fails with InvalidArgument or returns a Button,   *)
(* and wherever the fields can be read it agrees with the constructor.     *)
(* Violated: from_json({"style": 2, "label": "Go", "emoji": {"id": 7}})    *)
(* raises KeyError at emoji["name"] and returns no Button.                 *)
(***************************************************************************)
\* the emoji entry can be read: it is null or missing, or a map with a name
C9_EmojiReadable(data) ==
    LET e == Get(data, "emoji", PyNone) IN e.t = "dict" => "name" \in DOMAIN e.d

C9_Emoji(data) ==
    LET e == Get(data, "emoji", PyNone) IN
    IF e.t = "dict"
    THEN PartialEmoji(e.d["name"], Get(e, "animated", PyBool(FALSE)),
                      Get(e, "id", PyNone))
    ELSE PyNone

C9_Fields(data) ==
    [style |-> data.d["style"],
     label |-> Get(data, "label", PyNone),
     id |-> Get(data, "custom_id", PyNone),
     url |-> Get(data, "url", PyNone),
     disabled |-> Get(data, "disabled", PyBool(FALSE)),
     emoji |-> C9_Emoji(data)]

C9_AsConstructor ==
    LET c == Button_init(C9_Fields(arg), Uuid(uuidCount)) IN
    /\ (raised = InvalidArgument) <=> (c.raised = InvalidArgument)
    /\ (c.raised = NoError) => (raised = NoError /\ ret = c.self)

C9_FromJsonIsConstructor ==
    (op = "from_json" /\ "style" \in DOMAIN arg.d) =>
        /\ raised \in {InvalidArgument, NoError}
        /\ C9_EmojiReadable(arg) => C9_AsConstructor

(***************************************************************************)
(* C10: the style setter fails with InvalidArgument when the new value is  *)
(* Link and an identifier is set, and when the new value is outside [1,5]; *)
(* in every other case it sets the style to the new value and leaves       *)
(* identifier and url as they were.                                        *)
(***************************************************************************)
C10_StyleSetter ==
    op = "set_style" =>
        IF (arg = PyInt(5) /\ ~IsEmpty(pre.id)) \/ arg.v < 1 \/ arg.v > 5
        THEN raised = InvalidArgument
        ELSE /\ raised = NoError
             /\ button.style = arg
             /\ button.id = pre.id
             /\ button.url = pre.url

\* a Link button was switched to another style and kept its url
C10_Witness ==
    /\ op = "set_style"
    /\ raised = NoError
    /\ IsLink(pre)
    /\ ~IsLink(button)
    /\ button.url = PyStr("https://x")
    /\ IsEmpty(button.id)

(***************************************************************************)
(* C11: the label setter fails with InvalidArgument exactly when the new   *)
(* value is empty and no emoji is set; on a Button that has an emoji,      *)
(* setting an empty label succeeds and the label becomes the empty value.  *)
(***************************************************************************)
C11_LabelSetter ==
    op = "set_label" =>
        IF IsEmpty(arg) /\ pre.emoji = PyNone
        THEN raised = InvalidArgument
        ELSE raised = NoError /\ button.label = arg

\* an empty label was stored on a button that has an emoji
C11_Witness ==
    /\ op = "set_label"
    /\ arg = PyStr("")
    /\ pre.emoji # PyNone
    /\ pre.label = PyStr("Go")
    /\ raised = NoError
    /\ button.label = PyStr("")

(***************************************************************************)
(* C12: the url setter fails with InvalidArgument exactly when the new     *)
(* value is non-empty and the style is not Link; in every other case       *)
(* (an empty value on a Link button included) it stores the value.         *)
(***************************************************************************)
C12_UrlSetter ==
    op = "set_url" =>
        IF ~IsEmpty(arg) /\ ~IsLink(pre)
        THEN raised = InvalidArgument
        ELSE raised = NoError /\ button.url = arg

\* an empty url was stored on a Link button that had a url
C12_Witness ==
    /\ op = "set_url"
    /\ arg = PyStr("")
    /\ IsLink(pre)
    /\ pre.url = PyStr("https://x")
    /\ raised = NoError
    /\ button.url = PyStr("")

(***************************************************************************)
(* C13: the identifier setter fails with InvalidArgument exactly when the  *)
(* style is Link; on a non-Link Button it stores every value, an empty or  *)
(* absent one included.                                                    *)
(***************************************************************************)
C13_IdSetter ==
    op = "set_id" =>
        IF IsLink(pre)
        THEN raised = InvalidArgument
        ELSE raised = NoError /\ button.id = arg

\* None was stored as the identifier of a non-Link button
C13_Witness ==
    /\ op = "set_id"
    /\ arg = PyNone
    /\ ~IsLink(pre)
    /\ ~IsEmpty(pre.id)
    /\ raised = NoError
    /\ button.id = PyNone

(***************************************************************************)
(* C14: the emoji setter called with a value that is neither an emoji      *)
(* reference nor a string (42, nothing) raises no error and leaves the     *)
(* emoji unchanged; called with a string it stores an emoji reference      *)
(* whose name is that string; called with an emoji reference it stores     *)
(* that reference.                                                         *)
(***************************************************************************)
C14_EmojiSetter ==
    op = "set_emoji" =>
        /\ raised = NoError
        /\ IF arg.t = "PartialEmoji"
           THEN button.emoji = arg
           ELSE IF arg.t = "str"
           THEN button.emoji.t = "PartialEmoji" /\ button.emoji.name = arg
           ELSE button.emoji = pre.emoji

\* b.emoji = 42 on a button that has an emoji: no error, the emoji is kept
C14_Witness ==
    /\ op = "set_emoji"
    /\ arg = PyInt(42)
    /\ pre.emoji = PartialEmoji(PyStr("blob"), PyBool(TRUE), PyInt(7))
    /\ raised = NoError
    /\ button.emoji = pre.emoji

(***************************************************************************)
(* C15: for every Button reached by construction and setter calls,         *)
(* to_dict emits url = null when the style is not Link, even when the      *)
(* Button holds a url, and emits the stored url when the style is Link.    *)
(***************************************************************************)
C15_ToDictUrl ==
    op = "to_dict" =>
        /\ "url" \in DOMAIN ret.d
        /\ ret.d["url"] = IF IsLink(button) THEN button.url ELSE PyNone

\* to_dict of a non-Link button that holds a url emitted url = null
C15_Witness ==
    /\ op = "to_dict"
    /\ ~IsLink(button)
    /\ button.url = PyStr("https://x")
    /\ ret.d["url"] = PyNone

(***************************************************************************)
(* C16: every failure of construction, of a setter and of from_json on any *)
(* wire map (whether or not it carries every key, style included) is an    *)
(* InvalidArgument; no other error kind occurs.                            *)
(* Violated: Button.from_json({"label": "Go"}) raises KeyError.            *)
(***************************************************************************)
C16_OnlyInvalidArgument == raised \in {NoError, InvalidArgument}

(***************************************************************************)
(* C17: a setter call that fails with InvalidArgument leaves every field   *)
(* of the Button as it was before the call.                                *)
(***************************************************************************)
SetterOps == {"set_style", "set_label", "set_url", "set_id", "set_disabled", "set_emoji"}

C17_FailedSetterChangesNothing ==
    (op \in SetterOps /\ raised = InvalidArgument) => button = pre

\* b.url = "https://x" was refused on a non-Link button
C17_Witness ==
    /\ op = "set_url"
    /\ arg = PyStr("https://x")
    /\ raised = InvalidArgument
    /\ ~IsLink(pre)
    /\ pre.url = PyNone
    /\ button.url = PyNone

(***************************************************************************)
(* C18: each successful setter call changes only the field it names, set   *)
(* disabled never fails, and to_dict changes no field of the Button.       *)
(***************************************************************************)
C18_OnlyNamedFieldChanges ==
    /\ (op = "set_style" /\ raised = NoError) => button = [pre EXCEPT !.style = arg]
    /\ (op = "set_label" /\ raised = NoError) => button = [pre EXCEPT !.label = arg]
    /\ (op = "set_url" /\ raised = NoError) => button = [pre EXCEPT !.url = arg]
    /\ (op = "set_id" /\ raised = NoError) => button = [pre EXCEPT !.id = arg]
    /\ op = "set_disabled" => (raised = NoError /\ button = [pre EXCEPT !.disabled = arg])
    /\ (op = "set_emoji" /\ raised = NoError) => button = [pre EXCEPT !.emoji = button.emoji]
    /\ op = "to_dict" => (raised = NoError /\ button = pre)

\* disabled was switched on a Link button whose url is empty
C18_Witness ==
    /\ op = "set_disabled"
    /\ IsLink(pre)
    /\ IsEmpty(pre.url)
    /\ raised = NoError
    /\ pre.disabled = PyBool(FALSE)
    /\ button.disabled = PyBool(TRUE)

(***************************************************************************)
(* C19: once a Button's emoji is present it stays present: no call makes   *)
(* it absent again.                                                        *)
(***************************************************************************)
HasEmoji(b) == b # NoButton /\ b.emoji # PyNone

C19_EmojiStaysPresent == [][HasEmoji(button) => HasEmoji(button')]_vars

\* b.emoji = None on a button that has an emoji: the emoji is still there
C19_Witness ==
    /\ op = "set_emoji"
    /\ arg = PyNone
    /\ HasEmoji(pre)
    /\ HasEmoji(button)

(***************************************************************************)
(* C20: for every Button reached by construction and setter calls, the map *)
(* to_dict produces never carries a non-empty custom_id together with a    *)
(* non-empty url.                                                          *)
(***************************************************************************)
C20_NeverIdAndUrl ==
    op = "to_dict" => ~(~IsEmpty(ret.d["custom_id"]) /\ ~IsEmpty(ret.d["url"]))

\* to_dict of a button that holds both an identifier and a url
C20_Witness ==
    /\ op = "to_dict"
    /\ button.id = PyStr("abc")
    /\ button.url = PyStr("https://x")
    /\ ret.d["custom_id"] = PyStr("abc")
    /\ ret.d["url"] = PyNone

====
